---- MODULE Spec2Model ----
(***************************************************************************)
(* Runtime Debugging Log Server (scripts/debug-server.cjs): the sequence   *)
(* counter, the debug.log store, the ingestion requests whose bodies are   *)
(* still arriving, and the handlers of the HTTP routes.                    *)
(***************************************************************************)
EXTENDS Integers, Sequences, FiniteSets, TLC

\* ------------------------------------------------------------------ bounds
\* logCounter never exceeds MaxCounter (ingestion is disabled beyond it).
MaxCounter == 2
\* A batch body carries at most MaxBatch entries.
MaxBatch == 2

\* const MAX_BODY_SIZE = 1024 * 1024
MAX_BODY_SIZE == 1048576

\* The requests whose bodies may be arriving at the same time.
Reqs == {"r1", "r2"}

\* The lengths of the chunks a data event may deliver: two of the first make a
\* body of exactly MAX_BODY_SIZE bytes, one of each a body one byte longer.
ChunkLens == {MAX_BODY_SIZE \div 2, MAX_BODY_SIZE \div 2 + 1}

\* The values Date.now() takes.
Clock == {0, 1}

\* ------------------------------------------------------------ JSON values
\* A JSON value after JSON.parse: t is its JavaScript type, n its number (or
\* the number of own keys of an object, or 1/0 of a boolean), s its characters.
Undefined == [t |-> "undefined", n |-> 0, s |-> <<>>]
JNull == [t |-> "null", n |-> 0, s |-> <<>>]
JBool(b) == [t |-> "bool", n |-> IF b THEN 1 ELSE 0, s |-> <<>>]
JNum(k) == [t |-> "num", n |-> k, s |-> <<>>]
\* A number literal beyond the double range (1e400): JSON.parse yields Infinity.
JInf == [t |-> "inf", n |-> 0, s |-> <<>>]
JStr(cs) == [t |-> "str", n |-> 0, s |-> cs]
JObj(k) == [t |-> "obj", n |-> k, s |-> <<>>]

\* JavaScript truthiness, as `x || y` and `if (x)` read it.
Truthy(v) ==
  CASE v.t = "undefined" -> FALSE
    [] v.t = "null" -> FALSE
    [] v.t = "bool" -> v.n = 1
    [] v.t = "num" -> v.n # 0
    [] v.t = "str" -> v.s # <<>>
    [] OTHER -> TRUE

INFO == <<"i", "n", "f", "o">>
ERROR == <<"e", "r", "r", "o", "r">>
WARN == <<"w", "a", "r", "n">>

\* An object is a function from the keys it has to their values.
EmptyObject == [f \in {} |-> Undefined]

\* o[f] as JavaScript reads it: undefined for a key o does not have.
Get(o, f) == IF f \in DOMAIN o THEN o[f] ELSE Undefined

\* { ...a, ...b }: the keys of both, b's value where both have the key.
Assign(a, b) ==
  [f \in DOMAIN a \cup DOMAIN b |-> IF f \in DOMAIN b THEN b[f] ELSE a[f]]

\* ----------------------------------------------------- request bodies drawn
\* { hypothesisId: "A", location: "f:1", message: "m", timestamp: 1, data: {k: 1} }
PlainPayload ==
  [hypothesisId |-> JStr(<<"A">>), location |-> JStr(<<"f", ":", "1">>),
   message |-> JStr(<<"m">>), timestamp |-> JNum(1), data |-> JObj(1)]
\* { level: "error", message: "e", error: { message: "x" } }
ErrorPayload ==
  [level |-> JStr(ERROR), message |-> JStr(<<"e">>), error |-> JObj(1)]
\* { _seq: 1, _receivedAt: 99, message: "o" }
OverridePayload ==
  [_seq |-> JNum(1), _receivedAt |-> JNum(99), message |-> JStr(<<"o">>)]
\* { level: "", hypothesisId: "", message: "", timestamp: 0, data: null, error: false }
FalsyPayload ==
  [level |-> JStr(<<>>), hypothesisId |-> JStr(<<>>), message |-> JStr(<<>>),
   timestamp |-> JNum(0), data |-> JNull, error |-> JBool(FALSE)]
\* { level: null }
NullLevelPayload == [level |-> JNull]
\* { level: 5 }
NumLevelPayload == [level |-> JNum(5)]
\* { level: "warn", timestamp: 1e400 }
HugePayload == [level |-> JStr(WARN), timestamp |-> JInf]

Payloads ==
  {EmptyObject, PlainPayload, ErrorPayload, OverridePayload, FalsyPayload,
   NullLevelPayload, NumLevelPayload, HugePayload}

\* A parsed JSON document: k = "bad" is a body JSON.parse rejects (the empty
\* body included), "null" the document null, "scalar" a number, boolean, string
\* or array (it has none of the keys the server reads), "obj" the object o,
\* which has no entries array, "batch" an object whose entries is an array.
Doc(k, o, es) == [k |-> k, o |-> o, entries |-> es]
BadBody == Doc("bad", EmptyObject, <<>>)
NullDoc == Doc("null", EmptyObject, <<>>)
ScalarDoc == Doc("scalar", EmptyObject, <<>>)
ObjDoc(o) == Doc("obj", o, <<>>)
BatchDoc(es) == Doc("batch", EmptyObject, es)

\* The elements an entries array may hold, their objects drawn from P.
EntryDocs(P) == {NullDoc} \cup {ObjDoc(o) : o \in P}

SeqsUpTo(S, n) == UNION {[1..k -> S] : k \in 0..n}

\* The bodies sent to POST /ingest/<sid>, their objects drawn from P.
SingleBodies(P) == {BadBody, NullDoc, ScalarDoc} \cup {ObjDoc(o) : o \in P}
\* The bodies sent to POST /ingest/<sid>/batch.
BatchBodies(P) ==
  {BadBody, NullDoc, ScalarDoc, ObjDoc(EmptyObject)}
    \cup {BatchDoc(es) : es \in SeqsUpTo(EntryDocs(P), MaxBatch)}

\* The objects the clients of Spec send, alone and in batches, and the bodies
\* made of them.
SpecPayloads == {PlainPayload, OverridePayload}
SpecBatchPayloads == {OverridePayload}
SpecBodies ==
  [single |-> SingleBodies(SpecPayloads), batch |-> BatchBodies(SpecBatchPayloads)]

\* ------------------------------------------------------------------ state
VARIABLES
  logCounter,  \* let logCounter
  logFile,     \* the lines of debug.log, oldest first
  now,         \* the value Date.now() returns
  reqs,        \* per request: how far readBody has read its body
  last,        \* the response most recently sent, and the body it answers
  emptied      \* what emptied the store, while no record was stored since

vars == <<logCounter, logFile, now, reqs, last, emptied>>

Idle == [phase |-> "idle", kind |-> "single", size |-> 0]

\* No body: the request had none, or was answered before its body had arrived.
NoBody == Doc("none", EmptyObject, <<>>)

\* The parameters parseQuery hands to the handlers: each is a string, or
\* undefined when the URL does not carry it.
Query(hypothesis, level, location, search, limit, tail) ==
  [hypothesis |-> hypothesis, level |-> level, location |-> location,
   search |-> search, limit |-> limit, tail |-> tail]
NoQuery == Query(Undefined, Undefined, Undefined, Undefined, Undefined, Undefined)

\* op: the route; status: 0 when no answer reaches the client (the handler
\* threw, or the connection was destroyed before the answer was written); err:
\* what failed ("none", "size", "parse", "entries", "type" for a TypeError,
\* "io", "route"); n: the count or processed field of the answer, and for a
\* body rejected for its size the bytes readBody had received.
Response(op, status, err, n, body) ==
  [op |-> op, status |-> status, err |-> err, n |-> n, body |-> body]

\* The answer of a read-side route: query, the parameters of the request,
\* entries, the entries or timeline returned, and stats, the object
\* GET /logs/stats returns, besides the fields of Response.
ReadResponse(op, status, err, n, query, entries, stats) ==
  [op |-> op, status |-> status, err |-> err, n |-> n, body |-> NoBody,
   query |-> query, entries |-> entries, stats |-> stats]

\* ------------------------------------------------------------ the store
\* JSON.stringify writes a number that is not finite as null.
StringifyValue(v) == IF v.t = "inf" THEN JNull ELSE v

\* JSON.stringify(logEntry) + '\n': one line of the file.
Stringify(entry) ==
  [ok |-> TRUE, o |-> [f \in DOMAIN entry |-> StringifyValue(entry[f])]]

\* JSON.parse(line) in readLogEntries: null for a line that does not parse.
ParseLine(line) == IF line.ok THEN ObjDoc(line.o) ELSE NullDoc

\* readLogEntries giving up at a line that does not parse.
readLogEntriesAborting(file) ==
  IF \E i \in 1..Len(file) : ~file[i].ok THEN <<>>
  ELSE [i \in 1..Len(file) |-> file[i].o]

\* readLogEntries: the parsed lines, the falsy ones dropped.
readLogEntries(file) ==
  LET parsed == [i \in 1..Len(file) |-> ParseLine(file[i])]
      kept == SelectSeq(parsed, LAMBDA d : d.k = "obj")
  IN [i \in 1..Len(kept) |-> kept[i].o]

\* ------------------------------------------------------------- strings
\* s.includes(sub)
Includes(s, sub) ==
  \E i \in 0..(Len(s) - Len(sub)) : SubSeq(s, i + 1, i + Len(sub)) = sub

\* s.split(sep) for a separator of one character.
RECURSIVE Split(_, _)
Split(s, sep) ==
  IF \E i \in 1..Len(s) : s[i] = sep
    THEN LET i == CHOOSE k \in 1..Len(s) :
                    s[k] = sep /\ \A j \in 1..(k - 1) : s[j] # sep
         IN <<SubSeq(s, 1, i - 1)>> \o Split(SubSeq(s, i + 1, Len(s)), sep)
  ELSE <<s>>

UpperCase ==
  <<"A", "B", "C", "D", "E", "F", "G", "H", "I", "J", "K", "L", "M",
    "N", "O", "P", "Q", "R", "S", "T", "U", "V", "W", "X", "Y", "Z">>
LowerCase ==
  <<"a", "b", "c", "d", "e", "f", "g", "h", "i", "j", "k", "l", "m",
    "n", "o", "p", "q", "r", "s", "t", "u", "v", "w", "x", "y", "z">>

\* s.toLowerCase()
toLowerCase(s) ==
  [i \in 1..Len(s) |->
     IF \E k \in 1..26 : UpperCase[k] = s[i]
       THEN LowerCase[CHOOSE k \in 1..26 : UpperCase[k] = s[i]]
     ELSE s[i]]

Digits == <<"0", "1", "2", "3", "4", "5", "6", "7", "8", "9">>
IsDigit(c) == \E k \in 1..10 : Digits[k] = c

\* The value of the digits of s from position i on, up to the first character
\* that is not a digit; acc is the value of the digits read so far.
RECURSIVE DigitsValue(_, _, _)
DigitsValue(s, i, acc) ==
  IF i > Len(s) \/ ~IsDigit(s[i]) THEN acc
  ELSE DigitsValue(s, i + 1, acc * 10 + (CHOOSE k \in 1..10 : Digits[k] = s[i]) - 1)

\* parseInt(s, 10): an optional sign and the leading digits; NaN without a
\* leading digit.
parseInt(s) ==
  LET signed == Len(s) > 0 /\ s[1] \in {"-", "+"}
      first == IF signed THEN 2 ELSE 1
  IN IF first > Len(s) \/ ~IsDigit(s[first]) THEN [nan |-> TRUE, v |-> 0]
     ELSE [nan |-> FALSE,
           v |-> IF signed /\ s[1] = "-" THEN 0 - DigitsValue(s, first, 0)
                 ELSE DigitsValue(s, first, 0)]

\* arr.slice(-k) for k = parseInt(...): the start -k counts from the end when
\* negative and from the beginning otherwise; -0 and NaN start at 0.
SliceMinus(arr, k) ==
  LET start == IF k.nan THEN 0 ELSE 0 - k.v
      from == IF start < 0
                THEN (IF Len(arr) + start > 0 THEN Len(arr) + start ELSE 0)
              ELSE (IF start < Len(arr) THEN start ELSE Len(arr))
  IN SubSeq(arr, from + 1, Len(arr))

\* ------------------------------------------------------ read-side handlers
\* e.level || 'info'
LevelOf(e) == IF Truthy(Get(e, "level")) THEN Get(e, "level") ELSE JStr(INFO)

\* FilterHypothesis keeping every entry, whatever the parameter.
FilterHypothesisIgnored(es, query) == es

\* if (query.hypothesis) filtered.filter((e) => e.hypothesisId === query.hypothesis)
FilterHypothesis(es, query) ==
  IF Truthy(query.hypothesis)
    THEN SelectSeq(es, LAMBDA e : Get(e, "hypothesisId") = query.hypothesis)
  ELSE es

\* FilterLevel comparing the level with the whole parameter, not split.
FilterLevelWithoutSplit(es, query) ==
  IF Truthy(query.level)
    THEN SelectSeq(es, LAMBDA e : LevelOf(e) = query.level)
  ELSE es

\* if (query.level) filtered.filter((e) => levels.includes(e.level || 'info'))
FilterLevel(es, query) ==
  IF Truthy(query.level)
    THEN LET levels == Split(query.level.s, ",")
         IN SelectSeq(es, LAMBDA e :
                            \E i \in 1..Len(levels) : JStr(levels[i]) = LevelOf(e))
  ELSE es

\* x.includes / x.toLowerCase / x.split is not a function: x is truthy and
\* not a string.
NotAString(x) == Truthy(x) /\ x.t # "str"

\* e.location && e.location.includes(query.location)
LocationMatches(e, sub) ==
  LET location == Get(e, "location")
  IN Truthy(location) /\ location.t = "str" /\ Includes(location.s, sub)

\* e.message && e.message.toLowerCase().includes(searchLower)
MessageMatches(e, searchLower) ==
  LET message == Get(e, "message")
  IN Truthy(message) /\ message.t = "str"
       /\ Includes(toLowerCase(message.s), searchLower)

\* The search predicate: the message, or else the location, in lower case.
SearchMatches(e, searchLower) ==
  \/ MessageMatches(e, searchLower)
  \/ LET location == Get(e, "location")
     IN Truthy(location) /\ location.t = "str"
          /\ Includes(toLowerCase(location.s), searchLower)

\* The search predicate throws: at the message, or at the location when the
\* message did not match.
SearchThrows(e, searchLower) ==
  \/ NotAString(Get(e, "message"))
  \/ ~MessageMatches(e, searchLower) /\ NotAString(Get(e, "location"))

\* The stats object before any entry is counted: no key in the three
\* groupings, timeRange { earliest: null, latest: null } without durationMs.
NoCounts == [k \in {} |-> 0]
NoStats ==
  [totalEntries |-> 0, byHypothesis |-> NoCounts, byLevel |-> NoCounts,
   byLocation |-> NoCounts, earliest |-> JNull, latest |-> JNull,
   durationMs |-> Undefined, errorCount |-> 0]

\* What a read-side handler ends in: the answer, or the TypeError it threw.
Answer(n, entries) ==
  [status |-> 200, err |-> "none", n |-> n, entries |-> entries, stats |-> NoStats]
Thrown == [status |-> 0, err |-> "type", n |-> 0, entries |-> <<>>, stats |-> NoStats]

\* GET /logs: the filters in the order of the code, each applied to what the
\* one before it kept.
QueryLogs(entries, query) ==
  LET byHypothesis == FilterHypothesis(entries, query)
      byLevel == FilterLevel(byHypothesis, query)
      locationThrows ==
        /\ Truthy(query.location)
        /\ \E i \in 1..Len(byLevel) : NotAString(Get(byLevel[i], "location"))
      byLocation ==
        IF Truthy(query.location)
          THEN SelectSeq(byLevel, LAMBDA e : LocationMatches(e, query.location.s))
        ELSE byLevel
      searchLower == toLowerCase(query.search.s)
      searchThrows ==
        /\ Truthy(query.search)
        /\ \E i \in 1..Len(byLocation) : SearchThrows(byLocation[i], searchLower)
      bySearch ==
        IF Truthy(query.search)
          THEN SelectSeq(byLocation, LAMBDA e : SearchMatches(e, searchLower))
        ELSE byLocation
      limited ==
        IF Truthy(query.limit) THEN SliceMinus(bySearch, parseInt(query.limit.s))
        ELSE bySearch
      tailed ==
        IF Truthy(query.tail) THEN SliceMinus(limited, parseInt(query.tail.s))
        ELSE limited
  IN IF locationThrows \/ searchThrows THEN Thrown
     ELSE Answer(Len(tailed), tailed)

\* GET /health: logCount.
Health(entries) == Answer(Len(entries), <<>>)

\* String(n) for an integer n.
RECURSIVE NatToString(_)
NatToString(n) ==
  IF n < 10 THEN <<Digits[n + 1]>>
  ELSE NatToString(n \div 10) \o <<Digits[(n % 10) + 1]>>
NumberToString(n) == IF n < 0 THEN <<"-">> \o NatToString(0 - n) ELSE NatToString(n)

\* The property key a value used as obj[value] names.
ToPropertyKey(v) ==
  CASE v.t = "str" -> v.s
    [] v.t = "num" -> NumberToString(v.n)
    [] v.t = "bool" -> (IF v.n = 1 THEN <<"t", "r", "u", "e">>
                        ELSE <<"f", "a", "l", "s", "e">>)
    [] v.t = "null" -> <<"n", "u", "l", "l">>
    [] v.t = "inf" -> <<"I", "n", "f", "i", "n", "i", "t", "y">>
    [] OTHER -> <<"[", "o", "b", "j", "e", "c", "t", "]">>

NONE == <<"n", "o", "n", "e">>

\* e.hypothesisId || 'none', as a key of byHypothesis.
HypothesisKey(e) ==
  IF Truthy(Get(e, "hypothesisId")) THEN ToPropertyKey(Get(e, "hypothesisId"))
  ELSE NONE

\* e.level || 'info', as a key of byLevel.
LevelKey(e) == ToPropertyKey(LevelOf(e))

\* e.location.split(':')[0], as a key of byLocation.
LocationKey(e) == Split(Get(e, "location").s, ":")[1]

\* counts[key] = (counts[key] || 0) + 1 for every entry, keys being the
\* entries' keys in file order.
CountBy(keys) ==
  [k \in {keys[i] : i \in 1..Len(keys)} |->
     Cardinality({i \in 1..Len(keys) : keys[i] = k})]

\* TimeRange taking the first truthy timestamp as earliest and the last one as
\* latest, whatever their order.
RECURSIVE TimeRangeUnordered(_, _, _, _)
TimeRangeUnordered(es, i, earliest, latest) ==
  IF i > Len(es) THEN [earliest |-> earliest, latest |-> latest]
  ELSE LET timestamp == Get(es[i], "timestamp")
       IN IF Truthy(timestamp)
            THEN TimeRangeUnordered(es, i + 1,
                   IF ~Truthy(earliest) THEN timestamp ELSE earliest, timestamp)
          ELSE TimeRangeUnordered(es, i + 1, earliest, latest)

\* The timeRange after the entries from i on, from the earliest and latest
\* found before them: an entry with a truthy timestamp replaces an earliest
\* that is falsy or larger, and a latest that is falsy or smaller.
RECURSIVE TimeRange(_, _, _, _)
TimeRange(es, i, earliest, latest) ==
  IF i > Len(es) THEN [earliest |-> earliest, latest |-> latest]
  ELSE LET timestamp == Get(es[i], "timestamp")
       IN IF Truthy(timestamp)
            THEN TimeRange(es, i + 1,
                   IF ~Truthy(earliest) \/ timestamp.n < earliest.n
                     THEN timestamp ELSE earliest,
                   IF ~Truthy(latest) \/ timestamp.n > latest.n
                     THEN timestamp ELSE latest)
          ELSE TimeRange(es, i + 1, earliest, latest)

\* CountsAsError counting every record that has an error key.
CountsAsErrorByPresence(e) ==
  Get(e, "level") = JStr(ERROR) \/ "error" \in DOMAIN e

\* if (e.level === 'error' || e.error) stats.errorCount++
CountsAsError(e) == Get(e, "level") = JStr(ERROR) \/ Truthy(Get(e, "error"))

\* GET /logs/stats; e.location.split(':') throws for a location that is truthy
\* and not a string.
Stats(entries) ==
  IF \E i \in 1..Len(entries) : NotAString(Get(entries[i], "location")) THEN Thrown
  ELSE LET range == TimeRange(entries, 1, JNull, JNull)
           located == SelectSeq(entries, LAMBDA e : Truthy(Get(e, "location")))
       IN [Answer(Len(entries), <<>>) EXCEPT !.stats =
             [totalEntries |-> Len(entries),
              byHypothesis |-> CountBy([i \in 1..Len(entries) |-> HypothesisKey(entries[i])]),
              byLevel |-> CountBy([i \in 1..Len(entries) |-> LevelKey(entries[i])]),
              byLocation |-> CountBy([i \in 1..Len(located) |-> LocationKey(located[i])]),
              earliest |-> range.earliest,
              latest |-> range.latest,
              durationMs |->
                IF Truthy(range.earliest) /\ Truthy(range.latest)
                  THEN JNum(range.latest.n - range.earliest.n)
                ELSE Undefined,
              errorCount |->
                Cardinality({i \in 1..Len(entries) : CountsAsError(entries[i])})]]

\* a.timestamp || 0, the sort key of the timeline.
SortKey(e) == IF Truthy(Get(e, "timestamp")) THEN Get(e, "timestamp").n ELSE 0

\* InsertByKey putting e before the elements of its own key.
InsertByKeyBeforeEquals(sorted, e) ==
  LET k == Cardinality({i \in 1..Len(sorted) : SortKey(sorted[i]) < SortKey(e)})
  IN SubSeq(sorted, 1, k) \o <<e>> \o SubSeq(sorted, k + 1, Len(sorted))

\* sorted with e put after the last element whose key is not larger than e's.
InsertByKey(sorted, e) ==
  LET k == Cardinality({i \in 1..Len(sorted) : SortKey(sorted[i]) <= SortKey(e)})
  IN SubSeq(sorted, 1, k) \o <<e>> \o SubSeq(sorted, k + 1, Len(sorted))

\* SortByTimestamp leaving the array in the order of the file.
SortByTimestampKeepingOrder(es) == es

\* filtered.sort((a, b) => (a.timestamp || 0) - (b.timestamp || 0)): ascending
\* by key, elements of equal key in their order in the array.
RECURSIVE SortByTimestamp(_)
SortByTimestamp(es) ==
  IF es = <<>> THEN <<>>
  ELSE InsertByKey(SortByTimestamp(SubSeq(es, 1, Len(es) - 1)), es[Len(es)])

\* HasKeys finding a key in every truthy value.
HasKeysAlways(x) == TRUE

\* Object.keys(x).length > 0 for a truthy x: an object by its own keys, a
\* string by its characters, no key for a number or a boolean.
HasKeys(x) ==
  CASE x.t = "obj" -> x.n > 0
    [] x.t = "str" -> Len(x.s) > 0
    [] OTHER -> FALSE

\* The timeline entry of element i of the sorted array; elapsed is the number
\* the answer writes as `+<elapsed>ms`.
TimelineEntry(arr, i) ==
  LET e == arr[i]
  IN [seq |-> Get(e, "_seq"),
      timestamp |-> Get(e, "timestamp"),
      elapsed |->
        IF i > 1 /\ Truthy(Get(arr[i - 1], "timestamp")) /\ Truthy(Get(e, "timestamp"))
          THEN Get(e, "timestamp").n - Get(arr[i - 1], "timestamp").n
        ELSE 0,
      hypothesis |->
        IF Truthy(Get(e, "hypothesisId")) THEN Get(e, "hypothesisId")
        ELSE JStr(<<"-">>),
      level |-> LevelOf(e),
      location |-> Get(e, "location"),
      message |-> Get(e, "message"),
      hasData |-> Truthy(Get(e, "data")) /\ HasKeys(Get(e, "data")),
      hasError |-> Truthy(Get(e, "error"))]

\* GET /logs/timeline: count and timeline.
Timeline(entries, query) ==
  LET arr == SortByTimestamp(FilterHypothesis(entries, query))
  IN Answer(Len(arr), [i \in 1..Len(arr) |-> TimelineEntry(arr, i)])

\* The handler of read-side route op over the lines of the file.
ReadOutcome(op, file, query) ==
  LET entries == readLogEntries(file)
  IN CASE op = "health" -> Health(entries)
       [] op = "logs" -> QueryLogs(entries, query)
       [] op = "stats" -> Stats(entries)
       [] OTHER -> Timeline(entries, query)

\* ---------------------------------------------------------- processLogEntry
\* LogEntry with the spread of the payload left out.
LogEntryWithoutSpread(data, counter, clock) ==
  LET spread == IF data.k = "obj" THEN data.o ELSE EmptyObject
      level == Get(spread, "level")
  IN Assign([_seq |-> JNum(counter), _receivedAt |-> JNum(clock)],
            [level |-> IF Truthy(level) THEN level ELSE JStr(INFO)])

\* LogEntry with the `level: data.level || 'info'` line left out.
LogEntryWithoutLevelDefault(data, counter, clock) ==
  LET spread == IF data.k = "obj" THEN data.o ELSE EmptyObject
  IN Assign([_seq |-> JNum(counter), _receivedAt |-> JNum(clock)], spread)

\* { _seq: logCounter, _receivedAt: Date.now(), ...data, level: data.level || 'info' }
LogEntry(data, counter, clock) ==
  LET spread == IF data.k = "obj" THEN data.o ELSE EmptyObject
      level == Get(spread, "level")
  IN Assign(Assign([_seq |-> JNum(counter), _receivedAt |-> JNum(clock)], spread),
            [level |-> IF Truthy(level) THEN level ELSE JStr(INFO)])

\* (logEntry.level || 'info').toUpperCase() throws a TypeError when the level
\* is not a string.
ConsoleThrows(entry) ==
  LET level == Get(entry, "level")
  IN Truthy(level) /\ level.t # "str"

\* ProcessLogEntry writing the file anew (writeFileSync for appendFileSync).
ProcessLogEntryOverwriting(data, counter, file, clock, ioOk) ==
  LET c == counter + 1
      entry == LogEntry(data, c, clock)
  IN IF data.k = "null"
       THEN [counter |-> c, file |-> file, err |-> "type"]
     ELSE IF ~ioOk
       THEN [counter |-> c, file |-> file, err |-> "io"]
     ELSE [counter |-> c, file |-> <<Stringify(entry)>>, err |-> "none"]

\* processLogEntry(data) from the counter, file and clock given; ioOk tells
\* whether appendFileSync succeeds. err: the exception the call ended in.
ProcessLogEntry(data, counter, file, clock, ioOk) ==
  LET c == counter + 1
      entry == LogEntry(data, c, clock)
  IN IF data.k = "null"
       THEN [counter |-> c, file |-> file, err |-> "type"]
     ELSE IF ~ioOk
       THEN [counter |-> c, file |-> file, err |-> "io"]
     ELSE [counter |-> c, file |-> Append(file, Stringify(entry)),
           err |-> IF ConsoleThrows(entry) THEN "type" ELSE "none"]

\* data.entries.map((entry) => processLogEntry(entry)) from entry i on.
\* processed counts the calls that returned.
RECURSIVE MapEntries(_, _, _, _, _, _)
MapEntries(entries, i, counter, file, clock, ioOk) ==
  IF i > Len(entries)
    THEN [counter |-> counter, file |-> file, err |-> "none", processed |-> Len(entries)]
  ELSE LET r == ProcessLogEntry(entries[i], counter, file, clock, ioOk)
       IN IF r.err # "none"
            THEN [counter |-> r.counter, file |-> r.file, err |-> r.err,
                  processed |-> i - 1]
          ELSE MapEntries(entries, i + 1, r.counter, r.file, clock, ioOk)

\* SingleOutcome with the counter incremented before the body is parsed.
SingleOutcomeCountingFirst(body, counter, file, clock, ioOk) ==
  IF body.k = "bad"
    THEN [status |-> 400, err |-> "parse", counter |-> counter + 1, file |-> file,
          n |-> 0]
  ELSE LET r == ProcessLogEntry(body, counter, file, clock, ioOk)
       IN [status |-> IF r.err # "none" THEN 400 ELSE 200, err |-> r.err,
           counter |-> r.counter, file |-> r.file, n |-> 0]

\* SingleOutcome answering 200 whatever processLogEntry ended in.
SingleOutcomeAlwaysOk(body, counter, file, clock, ioOk) ==
  IF body.k = "bad"
    THEN [status |-> 400, err |-> "parse", counter |-> counter, file |-> file, n |-> 0]
  ELSE LET r == ProcessLogEntry(body, counter, file, clock, ioOk)
       IN [status |-> 200, err |-> r.err, counter |-> r.counter, file |-> r.file,
           n |-> 0]

\* The single ingestion handler once the body has arrived.
SingleOutcome(body, counter, file, clock, ioOk) ==
  IF body.k = "bad"
    THEN [status |-> 400, err |-> "parse", counter |-> counter, file |-> file, n |-> 0]
  ELSE LET r == ProcessLogEntry(body, counter, file, clock, ioOk)
       IN [status |-> IF r.err # "none" THEN 400 ELSE 200, err |-> r.err,
           counter |-> r.counter, file |-> r.file, n |-> 0]

\* BatchOutcome taking a body without an entries array as its one entry.
BatchOutcomeWithoutArrayCheck(body, counter, file, clock, ioOk) ==
  IF body.k = "bad"
    THEN [status |-> 400, err |-> "parse", counter |-> counter, file |-> file, n |-> 0]
  ELSE LET entries == IF body.k = "batch" THEN body.entries ELSE <<body>>
           r == MapEntries(entries, 1, counter, file, clock, ioOk)
       IN [status |-> IF r.err # "none" THEN 400 ELSE 200, err |-> r.err,
           counter |-> r.counter, file |-> r.file,
           n |-> IF r.err # "none" THEN 0 ELSE r.processed]

\* The batch ingestion handler once the body has arrived.
BatchOutcome(body, counter, file, clock, ioOk) ==
  IF body.k = "bad"
    THEN [status |-> 400, err |-> "parse", counter |-> counter, file |-> file, n |-> 0]
  ELSE IF body.k = "null"
    THEN [status |-> 400, err |-> "type", counter |-> counter, file |-> file, n |-> 0]
  ELSE IF body.k # "batch"
    THEN [status |-> 400, err |-> "entries", counter |-> counter, file |-> file, n |-> 0]
  ELSE LET r == MapEntries(body.entries, 1, counter, file, clock, ioOk)
       IN [status |-> IF r.err # "none" THEN 400 ELSE 200, err |-> r.err,
           counter |-> r.counter, file |-> r.file,
           n |-> IF r.err # "none" THEN 0 ELSE r.processed]

IngestOutcome(kind, body, counter, file, clock, ioOk) ==
  IF kind = "batch" THEN BatchOutcome(body, counter, file, clock, ioOk)
  ELSE SingleOutcome(body, counter, file, clock, ioOk)

\* How many entries of the body the handler of the route may hand to
\* processLogEntry.
Calls(kind, body) ==
  IF kind = "batch" THEN (IF body.k = "batch" THEN Len(body.entries) ELSE 0)
  ELSE (IF body.k = "bad" THEN 0 ELSE 1)

\* ---------------------------------------------------------------- actions
Init ==
  /\ logCounter = 0
  /\ logFile = <<>>
  /\ now = 0
  /\ reqs = [r \in Reqs |-> Idle]
  /\ last = Response("none", 0, "none", 0, NoBody)
  /\ emptied = "start"

\* A POST /ingest/... request arrives: the handler runs up to `await readBody`.
Start(r, kind) ==
  /\ reqs[r].phase = "idle"
  /\ reqs' = [reqs EXCEPT ![r] = [phase |-> "reading", kind |-> kind, size |-> 0]]
  /\ UNCHANGED <<logCounter, logFile, now, last, emptied>>

\* Data rejecting a body as soon as it reaches maxSize.
DataRejectingAtLimit(r, len) ==
  /\ reqs[r].phase = "reading"
  /\ LET size == reqs[r].size + len
     IN IF size >= MAX_BODY_SIZE
          THEN /\ reqs' = [reqs EXCEPT ![r] = Idle]
               /\ last' = Response(reqs[r].kind, 0, "size", size, NoBody)
          ELSE /\ reqs' = [reqs EXCEPT ![r].size = size]
               /\ UNCHANGED last
  /\ UNCHANGED <<logCounter, logFile, now, emptied>>

\* req.on('data'): a chunk of len bytes arrives; past maxSize readBody rejects
\* and `req.destroy()` closes the connection of the request, so that the 400
\* the handler's catch writes next reaches no one: status 0.
Data(r, len) ==
  /\ reqs[r].phase = "reading"
  /\ LET size == reqs[r].size + len
     IN IF size > MAX_BODY_SIZE
          THEN /\ reqs' = [reqs EXCEPT ![r] = Idle]
               /\ last' = Response(reqs[r].kind, 0, "size", size, NoBody)
          ELSE /\ reqs' = [reqs EXCEPT ![r].size = size]
               /\ UNCHANGED last
  /\ UNCHANGED <<logCounter, logFile, now, emptied>>

\* req.on('end'): readBody resolves and the handler parses and processes the
\* body and answers. A body of no bytes is one JSON.parse rejects.
End(r, body, ioOk) ==
  /\ reqs[r].phase = "reading"
  /\ reqs[r].size = 0 => body = BadBody
  /\ logCounter + Calls(reqs[r].kind, body) <= MaxCounter
  /\ LET out == IngestOutcome(reqs[r].kind, body, logCounter, logFile, now, ioOk)
     IN /\ logCounter' = out.counter
        /\ logFile' = out.file
        /\ last' = Response(reqs[r].kind, out.status, out.err, out.n, body)
        /\ emptied' = IF out.file = logFile THEN emptied ELSE "no"
  /\ reqs' = [reqs EXCEPT ![r] = Idle]
  /\ UNCHANGED now

\* Delete without `logCounter = 0`.
DeleteWithoutReset(ioOk) ==
  /\ IF ioOk
       THEN /\ logFile' = <<>>
            /\ last' = Response("delete", 200, "none", 0, NoBody)
            /\ emptied' = "delete"
       ELSE /\ last' = Response("delete", 500, "io", 0, NoBody)
            /\ UNCHANGED <<logFile, emptied>>
  /\ UNCHANGED <<logCounter, now, reqs>>

\* DELETE /logs; ioOk tells whether writeFileSync succeeds.
Delete(ioOk) ==
  /\ IF ioOk
       THEN /\ logFile' = <<>>
            /\ logCounter' = 0
            /\ last' = Response("delete", 200, "none", 0, NoBody)
            /\ emptied' = "delete"
       ELSE /\ last' = Response("delete", 500, "io", 0, NoBody)
            /\ UNCHANGED <<logFile, logCounter, emptied>>
  /\ UNCHANGED <<now, reqs>>

\* Read starting the counter anew.
ReadResettingCounter(op, query) ==
  /\ LET out == ReadOutcome(op, logFile, query)
     IN last' = ReadResponse(op, out.status, out.err, out.n, query, out.entries,
                             out.stats)
  /\ logCounter' = 0
  /\ UNCHANGED <<logFile, now, reqs, emptied>>

\* GET /health, /logs, /logs/stats, /logs/timeline with the parameters query.
Read(op, query) ==
  /\ LET out == ReadOutcome(op, logFile, query)
     IN last' = ReadResponse(op, out.status, out.err, out.n, query, out.entries,
                             out.stats)
  /\ UNCHANGED <<logCounter, logFile, now, reqs, emptied>>

\* OPTIONS on any path: 200 without a body.
Options ==
  /\ last' = Response("options", 200, "none", 0, NoBody)
  /\ UNCHANGED <<logCounter, logFile, now, reqs, emptied>>

\* A request no route matches: 404.
NotFound ==
  /\ last' = Response("notfound", 404, "route", 0, NoBody)
  /\ UNCHANGED <<logCounter, logFile, now, reqs, emptied>>

\* `> debug.log` while the server runs (SKILL.md, clear_logs of start-server.sh).
TruncateFile ==
  /\ logFile # <<>>
  /\ logFile' = <<>>
  /\ emptied' = "truncate"
  /\ UNCHANGED <<logCounter, now, reqs, last>>

\* Time passes.
Tick ==
  /\ now + 1 \in Clock
  /\ now' = now + 1
  /\ UNCHANGED <<logCounter, logFile, reqs, last, emptied>>

ReadOps == {"health", "logs", "stats", "timeline"}

\* The parameters the clients of Spec send: none, or tail=1 to GET /logs.
SpecQueries ==
  [health |-> {NoQuery}, stats |-> {NoQuery}, timeline |-> {NoQuery},
   logs |-> {NoQuery, [NoQuery EXCEPT !.tail = JStr(<<"1">>)]}]

\* The body of request r is one of B[kind]; ioOk tells whether the file system
\* accepts the appends of this request.
Ingest(r, B) ==
  \E body \in B[reqs[r].kind], ioOk \in BOOLEAN : End(r, body, ioOk)

Next ==
  \/ \E r \in Reqs, kind \in {"single", "batch"} : Start(r, kind)
  \/ \E r \in Reqs, len \in ChunkLens : Data(r, len)
  \/ \E r \in Reqs : Ingest(r, SpecBodies)
  \/ \E ioOk \in BOOLEAN : Delete(ioOk)
  \/ \E op \in ReadOps : \E query \in SpecQueries[op] : Read(op, query)
  \/ Options
  \/ NotFound
  \/ TruncateFile

Spec == Init /\ [][Next]_vars

\* One client whose bodies carry any of Payloads, sending one request at a
\* time until a request has stored records.
FirstBodies == [single |-> SingleBodies(Payloads), batch |-> BatchBodies(Payloads)]

NextFirst ==
  \/ \E kind \in {"single", "batch"} : logFile = <<>> /\ Start("r1", kind)
  \/ \E len \in ChunkLens : Data("r1", len)
  \/ Ingest("r1", FirstBodies)
  \/ Tick

SpecFirst == Init /\ [][NextFirst]_vars

\* ------------------------------------------------------ the process restarts
\* The process ends and is started again: `let logCounter = 0`, then the
\* startup clear, whose failure is logged and not acted upon; ioOk tells
\* whether its writeFileSync succeeds. The requests of the process that ended
\* are gone with it. last records the start, no answer having been sent since.
\* The files of the runs modelled hold at most MaxCounter lines at a restart.
Restart(ioOk) ==
  /\ Len(logFile) <= MaxCounter
  /\ logCounter' = 0
  /\ logFile' = IF ioOk THEN <<>> ELSE logFile
  /\ reqs' = [r \in Reqs |-> Idle]
  /\ last' = Response("start", 0, IF ioOk THEN "none" ELSE "io", 0, NoBody)
  /\ emptied' = IF ioOk THEN "start" ELSE emptied
  /\ UNCHANGED now

\* The bodies the client of SpecRestart sends.
RestartBodies ==
  [single |-> SingleBodies({PlainPayload}), batch |-> BatchBodies({PlainPayload})]

\* One client sending one request at a time and reading the store, and the
\* process restarting while the file holds at most MaxCounter lines.
NextRestart ==
  \/ \E kind \in {"single", "batch"} : Start("r1", kind)
  \/ \E len \in ChunkLens : Data("r1", len)
  \/ Ingest("r1", RestartBodies)
  \/ \E op \in {"logs", "timeline"} : Read(op, NoQuery)
  \/ \E ioOk \in BOOLEAN : Restart(ioOk)

SpecRestart == Init /\ [][NextRestart]_vars

\* --------------------------------------- the read-side handlers by themselves
\* A store holds at most MaxStore lines.
MaxStore == 2

\* { level: "warn", hypothesisId: "B", location: "F:2", message: "M", timestamp: 2 }
WarnPayload ==
  [level |-> JStr(WARN), hypothesisId |-> JStr(<<"B">>),
   location |-> JStr(<<"F", ":", "2">>), message |-> JStr(<<"M">>),
   timestamp |-> JNum(2)]
\* { location: 5, message: "m" }
NumLocationPayload == [location |-> JNum(5), message |-> JStr(<<"m">>)]
\* { location: "f:1", message: 7 }
NumMessagePayload == [location |-> JStr(<<"f", ":", "1">>), message |-> JNum(7)]

QueryPayloads ==
  {PlainPayload, ErrorPayload, WarnPayload, NumLocationPayload, NumMessagePayload}

\* A line of the file that JSON.parse rejects.
BadLine == [ok |-> FALSE, o |-> EmptyObject]

\* Line i of a file: the record processLogEntry writes for the payload, or a
\* line that is not JSON.
LineOf(d, i) == IF d.k = "bad" THEN BadLine ELSE Stringify(LogEntry(d, i, 0))

\* The files read: the payloads ingested one by one, lines that are not JSON
\* among them.
Stores ==
  {[i \in 1..Len(ds) |-> LineOf(ds[i], i)] :
     ds \in SeqsUpTo({BadBody} \cup {ObjDoc(o) : o \in QueryPayloads}, MaxStore)}

\* The values of the level parameter: error / error,warn / debug.
LevelLists == {JStr(ERROR), JStr(ERROR \o <<",">> \o WARN), JStr(<<"d", "e", "b", "u", "g">>)}
\* The values of the limit and tail parameters.
Counts == {JStr(<<"0">>), JStr(<<"1">>), JStr(<<"3">>)}

\* The parameters sent to each read-side route.
Queries ==
  [health |-> {NoQuery}, stats |-> {NoQuery},
   timeline |-> {NoQuery, [NoQuery EXCEPT !.hypothesis = JStr(<<"A">>)],
                 [NoQuery EXCEPT !.hypothesis = JStr(<<>>)]},
   logs |-> {Query(h, l, loc, s, lim, t) :
               h \in {Undefined, JStr(<<"A">>)},
               l \in {Undefined} \cup LevelLists,
               loc \in {Undefined, JStr(<<"f">>)},
               s \in {Undefined, JStr(<<"M">>)},
               lim \in {Undefined} \cup Counts,
               t \in {Undefined} \cup Counts}]

InitQuery ==
  /\ logFile \in Stores
  /\ logCounter = Len(logFile)
  /\ now = 0
  /\ reqs = [r \in Reqs |-> Idle]
  /\ last = Response("none", 0, "none", 0, NoBody)
  /\ emptied = IF logFile = <<>> THEN "start" ELSE "no"

\* One read-side request over the file drawn.
NextQuery ==
  \E op \in ReadOps : \E query \in Queries[op] : last.op = "none" /\ Read(op, query)

SpecQuery == InitQuery /\ [][NextQuery]_vars

\* ------------------------------------- the stats and timeline handlers alone
\* A store read by the stats and timeline handlers holds at most MaxEntries
\* records.
MaxEntries == 3

\* { hypothesisId: "A", timestamp: 3, data: {}, error: "x" }
LatePayload ==
  [hypothesisId |-> JStr(<<"A">>), timestamp |-> JNum(3), data |-> JObj(0),
   error |-> JStr(<<"x">>)]

\* The payloads of the records aggregated: their timestamps are numbers or
\* missing.
StatPayloads ==
  {PlainPayload, ErrorPayload, FalsyPayload, WarnPayload, LatePayload,
   NumLocationPayload}

StatStores ==
  {[i \in 1..Len(ds) |-> LineOf(ds[i], i)] :
     ds \in SeqsUpTo({ObjDoc(o) : o \in StatPayloads}, MaxEntries)}

InitStats ==
  /\ logFile \in StatStores
  /\ logCounter = Len(logFile)
  /\ now = 0
  /\ reqs = [r \in Reqs |-> Idle]
  /\ last = Response("none", 0, "none", 0, NoBody)
  /\ emptied = IF logFile = <<>> THEN "start" ELSE "no"

\* One stats or timeline request over the file drawn.
NextStats ==
  \E op \in {"stats", "timeline"} : \E query \in Queries[op] :
    last.op = "none" /\ Read(op, query)

SpecStats == InitStats /\ [][NextStats]_vars

\* ------------------------------------------------------------------ claims
\* The _seq and _receivedAt the store holds on line i.
SeqOf(file, i) == Get(file[i].o, "_seq")
ReceivedAtOf(file, i) == Get(file[i].o, "_receivedAt")

\* Request r is answered in this step.
Answered(r) == reqs[r].phase = "reading" /\ reqs'[r].phase = "idle"

\* This step appends k lines to the store and changes none before them.
Appends(k) ==
  /\ Len(logFile') = Len(logFile) + k
  /\ SubSeq(logFile', 1, Len(logFile)) = logFile

\* C1: the _seq values of the stored records, read in file order, are exactly
\* 1, 2, ..., N.
C1_SeqIsOneToN == \A i \in 1..Len(logFile) : SeqOf(logFile, i) = JNum(i)

\* C2: no two records present in the store carry the same _seq.
C2_NoDuplicateSeq ==
  \A i, j \in 1..Len(logFile) : i # j => SeqOf(logFile, i) # SeqOf(logFile, j)

\* C3: every record an ingestion step stores carries the counter value
\* assigned to it as _seq and the server clock value as _receivedAt, whatever
\* fields the payload has.
C3_ServerAssignsSeqAndTime ==
  [][\A k \in 1..MaxCounter :
       (k > 0 /\ Appends(k)) =>
         \A i \in 1..k :
           /\ SeqOf(logFile', Len(logFile) + i) = JNum(logCounter' - k + i)
           /\ ReceivedAtOf(logFile', Len(logFile) + i) = JNum(now)]_vars

\* C4: a batch request with K entries increments the counter by exactly K,
\* appends exactly K records after the pre-existing ones in the order of the
\* entries array, and answers 200 with processed = K.
C4_BatchOfKStoresK ==
  [][\A r \in Reqs :
       (Answered(r) /\ last'.op = "batch" /\ last'.body.k = "batch") =>
         LET K == Len(last'.body.entries)
         IN /\ logCounter' = logCounter + K
            /\ Appends(K)
            /\ \A i \in 1..K :
                 Get(logFile'[Len(logFile) + i].o, "message")
                   = Get(last'.body.entries[i].o, "message")
            /\ last'.status = 200
            /\ last'.n = K]_vars

\* C5: in a batch whose file system works, an entry that cannot be processed
\* (a null entry) does not stop the others: every other entry is stored.
C5_NullEntryDoesNotStopSiblings ==
  [][\A r \in Reqs :
       (Answered(r) /\ last'.op = "batch" /\ last'.body.k = "batch"
          /\ last'.err # "io") =>
         LET es == last'.body.entries
             others == SelectSeq(es, LAMBDA e : e.k # "null")
         IN /\ Appends(Len(others))
            /\ \A i \in 1..Len(others) :
                 Get(logFile'[Len(logFile) + i].o, "message")
                   = Get(others[i].o, "message")]_vars

\* C6: after DELETE /logs answered 200 and until a record is stored, every
\* read-side request reports zero records, and the next record stored has
\* _seq 1.
C6_ClearThenFresh ==
  [][emptied = "delete" =>
       /\ (last' # last /\ last'.op \in ReadOps => last'.n = 0)
       /\ (Len(logFile') > 0 => SeqOf(logFile', 1) = JNum(1))]_vars

\* C7: after debug.log was truncated directly and until a record is stored,
\* every read-side request reports zero records, and the next record stored
\* has _seq 1.
C7_TruncateBehavesLikeClear ==
  [][emptied = "truncate" =>
       /\ (last' # last /\ last'.op \in ReadOps => last'.n = 0)
       /\ (Len(logFile') > 0 => SeqOf(logFile', 1) = JNum(1))]_vars

\* C8: a single ingestion request whose body is not parsable JSON is answered
\* 400 and leaves the counter and the store unchanged.
C8_UnparsableSingleChangesNothing ==
  [][\A r \in Reqs :
       (Answered(r) /\ last'.op = "single" /\ last'.body = BadBody) =>
         /\ last'.status = 400
         /\ logCounter' = logCounter
         /\ logFile' = logFile]_vars

\* A single request with an unparsable body was just answered 400 while the
\* store held a record.
C8_Witness ==
  /\ last.op = "single"
  /\ last.body = BadBody
  /\ last.status = 400
  /\ logCounter > 0
  /\ logFile # <<>>

\* The objects the last answered request handed to processLogEntry, in order.
LastPayloads ==
  IF last.op = "single" /\ last.body.k \in {"obj", "scalar"} THEN <<last.body.o>>
  ELSE IF last.op = "batch" /\ last.body.k = "batch"
    THEN [i \in 1..Len(last.body.entries) |-> last.body.entries[i].o]
  ELSE <<>>

\* The record GET /logs returns last.
LastReturned == readLogEntries(logFile)[Len(readLogEntries(logFile))]

\* Under SpecFirst the store holds the records of the last answered request
\* and no others.
AcceptedSingle ==
  /\ last.op = "single"
  /\ last.status = 200
  /\ last.body.k = "obj"
  /\ readLogEntries(logFile) # <<>>

\* C9 as claimed: every field of an accepted payload other than _seq and
\* _receivedAt, the level and the falsy values included, comes back from
\* GET /logs with the same value.
C9_RoundTripAllFields ==
  AcceptedSingle =>
    \A f \in DOMAIN last.body.o \ {"_seq", "_receivedAt"} :
      Get(LastReturned, f) = last.body.o[f]

\* C9 amended: every field other than _seq, _receivedAt and level comes back
\* with the same value, a number beyond the double range as null; level comes
\* back unchanged when truthy and as 'info' when falsy.
C9_RoundTripButLevel ==
  AcceptedSingle =>
    /\ \A f \in DOMAIN last.body.o \ {"_seq", "_receivedAt", "level"} :
         Get(LastReturned, f)
           = IF last.body.o[f].t = "inf" THEN JNull ELSE last.body.o[f]
    /\ Get(LastReturned, "level")
         = IF Truthy(Get(last.body.o, "level")) THEN last.body.o.level
           ELSE JStr(INFO)

\* An accepted payload whose fields are falsy came back from GET /logs.
C9_Witness ==
  /\ AcceptedSingle
  /\ last.body.o = FalsyPayload
  /\ Get(LastReturned, "message") = JStr(<<>>)
  /\ Get(LastReturned, "data") = JNull
  /\ Get(LastReturned, "timestamp") = JNum(0)

\* C10 as claimed: every stored record has a level, the payload's when the
\* payload has a level key and 'info' when it has none.
C10_LevelSuppliedOrInfo ==
  \A i \in 1..Len(logFile) :
    i <= Len(LastPayloads) =>
      /\ "level" \in DOMAIN logFile[i].o
      /\ logFile[i].o.level
           = IF "level" \in DOMAIN LastPayloads[i] THEN LastPayloads[i].level
             ELSE JStr(INFO)

\* C10 amended: every stored record has a level, the payload's when the
\* payload has a truthy level and 'info' when it has none or a falsy one.
C10_LevelTruthyOrInfo ==
  \A i \in 1..Len(logFile) :
    i <= Len(LastPayloads) =>
      /\ "level" \in DOMAIN logFile[i].o
      /\ logFile[i].o.level
           = IF Truthy(Get(LastPayloads[i], "level")) THEN LastPayloads[i].level
             ELSE JStr(INFO)

\* A batch stored a record for a payload without level, then one for a
\* payload whose level is the empty string.
C10_Witness ==
  /\ last.op = "batch"
  /\ last.status = 200
  /\ Len(logFile) = 2
  /\ LastPayloads = <<EmptyObject, FalsyPayload>>
  /\ logFile[1].o.level = JStr(INFO)
  /\ logFile[2].o.level = JStr(INFO)

\* a is a prefix of b.
IsPrefix(a, b) == Len(a) <= Len(b) /\ SubSeq(b, 1, Len(a)) = a

\* C11: the store is append-only: the step that answers an ingestion request
\* leaves the store a prefix of what it becomes, and a step after which the
\* old store is not a prefix of the new one is a clear, which leaves no record.
C11_AppendOnly ==
  [][/\ \A r \in Reqs : Answered(r) => IsPrefix(logFile, logFile')
     /\ ~IsPrefix(logFile, logFile') =>
          logFile' = <<>> /\ emptied' \in {"delete", "truncate"}]_vars

\* Two ingestion requests stored a record each, the second after the first.
C11_Witness ==
  /\ Len(logFile) = 2
  /\ logCounter = 2
  /\ last.op = "single"
  /\ last.status = 200
  /\ emptied = "no"

\* C12: the _seq values of the stored records are strictly increasing along
\* the file order.
C12_SeqStrictlyIncreasing ==
  \A i, j \in 1..Len(logFile) :
    i < j => SeqOf(logFile, i).n < SeqOf(logFile, j).n

\* The record processLogEntry stores for payload o, whatever the counter and
\* the clock were.
StoredFor(o) ==
  {Stringify(LogEntry(ObjDoc(o), c, t)).o : c \in 1..(MaxCounter + 1), t \in Clock}

\* C13: when an ingestion request is answered 200 its records are the last
\* ones of the store; the records a read finds stay there, in place, until a
\* clear; and GET /logs without parameters returns every record of the store.
C13_ReadYourWrites ==
  [][/\ \A r \in Reqs :
          (Answered(r) /\ last'.status = 200) =>
            LET entries == readLogEntries(logFile')
                k == Len(LastPayloads')
            IN /\ Len(entries) >= k
               /\ \A i \in 1..k :
                    entries[Len(entries) - k + i] \in StoredFor(LastPayloads'[i])
     /\ logFile' # logFile =>
          \/ logFile' = <<>> /\ emptied' \in {"delete", "truncate"}
          \/ IsPrefix(readLogEntries(logFile), readLogEntries(logFile'))
     /\ (last' # last /\ last'.op = "logs" /\ last'.query = NoQuery) =>
          /\ last'.status = 200
          /\ last'.entries = readLogEntries(logFile)
          /\ last'.n = Len(readLogEntries(logFile))]_vars

\* GET /logs returned the two records of requests answered 200 before it.
C13_Witness ==
  /\ last.op = "logs"
  /\ last.query = NoQuery
  /\ last.n = 2
  /\ last.entries = readLogEntries(logFile)
  /\ logCounter = 2
  /\ emptied = "no"

\* The last n elements of a sequence, all of them when it has fewer.
LastN(seq, n) ==
  SubSeq(seq, Len(seq) - (IF n < Len(seq) THEN n ELSE Len(seq)) + 1, Len(seq))

\* Record e satisfies every filter the query supplies.
SatisfiesFilters(e, q) ==
  LET location == Get(e, "location")
      message == Get(e, "message")
  IN /\ q.hypothesis # Undefined => Get(e, "hypothesisId") = q.hypothesis
     /\ q.level # Undefined =>
          \E i \in 1..Len(Split(q.level.s, ",")) :
            JStr(Split(q.level.s, ",")[i]) = LevelOf(e)
     /\ q.location # Undefined =>
          location.t = "str" /\ Includes(location.s, q.location.s)
     /\ q.search # Undefined =>
          \/ message.t = "str"
               /\ Includes(toLowerCase(message.s), toLowerCase(q.search.s))
          \/ location.t = "str"
               /\ Includes(toLowerCase(location.s), toLowerCase(q.search.s))

\* C14: GET /logs (without limit and tail) answers with exactly the stored
\* records that satisfy every supplied filter, in store order, and count is
\* their number.
C14_QueryReturnsMatching ==
  (last.op = "logs" /\ last.query.limit = Undefined /\ last.query.tail = Undefined) =>
    /\ last.status = 200
    /\ last.entries
         = SelectSeq(readLogEntries(logFile),
                     LAMBDA e : SatisfiesFilters(e, last.query))
    /\ last.n = Len(last.entries)

\* The filtered set of the last GET /logs: what its filters keep, before
\* limit and tail.
FilteredSet ==
  QueryLogs(readLogEntries(logFile),
            [last.query EXCEPT !.limit = Undefined, !.tail = Undefined]).entries

\* The integer a limit or tail parameter writes.
CountOf(x) == parseInt(x.s).v

\* C15: GET /logs with limit=N (N >= 0, no tail) that is answered returns at
\* most N records, the last N of the filtered set.
C15_LimitReturnsLastN ==
  (last.op = "logs" /\ last.status = 200
     /\ last.query.limit # Undefined /\ last.query.tail = Undefined) =>
    /\ Len(last.entries) <= CountOf(last.query.limit)
    /\ last.entries = LastN(FilteredSet, CountOf(last.query.limit))

\* C16: GET /logs?tail=N (N >= 0) on a store of M records returns exactly the
\* min(N, M) most recently appended records, in their order.
C16_TailReturnsLastMin ==
  (last.op = "logs" /\ last.query.tail # Undefined
     /\ last.query = [NoQuery EXCEPT !.tail = last.query.tail]) =>
    LET N == CountOf(last.query.tail)
        M == Len(readLogEntries(logFile))
    IN /\ last.status = 200
       /\ last.n = (IF N < M THEN N ELSE M)
       /\ last.entries = LastN(readLogEntries(logFile), N)

\* C17: with limit=L and tail=T both supplied, an answered GET /logs returns
\* the last T of the last L records of the filtered set, which are its last
\* min(L, T) records.
C17_LimitThenTail ==
  (last.op = "logs" /\ last.status = 200
     /\ last.query.limit # Undefined /\ last.query.tail # Undefined) =>
    LET L == CountOf(last.query.limit)
        T == CountOf(last.query.tail)
    IN /\ last.entries = LastN(LastN(FilteredSet, L), T)
       /\ last.entries = LastN(FilteredSet, IF L < T THEN L ELSE T)

\* The levels a level parameter lists.
LevelSet(l) == {Split(l.s, ",")[i] : i \in 1..Len(Split(l.s, ","))}

\* The query whose only parameter is level=l.
LevelOnly(l) == [NoQuery EXCEPT !.level = l]

\* C18: every record GET /logs?level=<list> returns is also returned for
\* every list that has all the levels of <list>, and that list returns at
\* least as many records.
C18_LevelMonotone ==
  (last.op = "logs" /\ last.query.level # Undefined
     /\ last.query = LevelOnly(last.query.level)) =>
    \A l2 \in LevelLists :
      LevelSet(last.query.level) \subseteq LevelSet(l2) =>
        LET larger == QueryLogs(readLogEntries(logFile), LevelOnly(l2))
        IN /\ last.status = 200
           /\ larger.status = 200
           /\ Len(larger.entries) >= Len(last.entries)
           /\ \A i \in 1..Len(last.entries) :
                \E j \in 1..Len(larger.entries) : larger.entries[j] = last.entries[i]

\* level=error returned the one error record of a store that also holds a
\* warn record, which level=error,warn returns as well.
C18_Witness ==
  /\ last.op = "logs"
  /\ last.query = LevelOnly(JStr(ERROR))
  /\ last.n = 1
  /\ QueryLogs(readLogEntries(logFile),
               LevelOnly(JStr(ERROR \o <<",">> \o WARN))).n = 2

\* C19: every GET /logs, /logs/stats and /logs/timeline request is answered
\* with status 200.
C19_ReadsAnswer200 ==
  last.op \in {"logs", "stats", "timeline"} => last.status = 200

\* The lines of the file that are JSON.
GoodLines(file) == SelectSeq(file, LAMBDA line : line.ok)

\* C20: the entries read are the records of all the lines that are JSON, in
\* file order; every read-side request ends as it does on the file without
\* the other lines; and GET /health and GET /logs without parameters answer
\* 200 with all those records.
C20_MalformedLineSkipped ==
  LET good == GoodLines(logFile)
      records == [i \in 1..Len(good) |-> good[i].o]
  IN /\ readLogEntries(logFile) = records
     /\ last.op \in ReadOps =>
          LET out == ReadOutcome(last.op, good, last.query)
          IN /\ last.status = out.status
             /\ last.n = out.n
             /\ last.entries = out.entries
     /\ (last.op = "health" \/ (last.op = "logs" /\ last.query = NoQuery)) =>
          /\ last.status = 200
          /\ last.n = Len(records)
          /\ last.op = "logs" => last.entries = records

\* GET /logs returned the one record of a file whose first line is not JSON.
C20_Witness ==
  /\ Len(logFile) = 2
  /\ ~logFile[1].ok
  /\ logFile[2].ok
  /\ last.op = "logs"
  /\ last.query = NoQuery
  /\ last.status = 200
  /\ last.entries = <<logFile[2].o>>

\* The sum of the counts of a grouping.
RECURSIVE SumCounts(_)
SumCounts(counts) ==
  IF DOMAIN counts = {} THEN 0
  ELSE LET k == CHOOSE x \in DOMAIN counts : TRUE
       IN counts[k] + SumCounts([x \in DOMAIN counts \ {k} |-> counts[x]])

\* The records the last read-side request read.
Records == readLogEntries(logFile)

\* GET /logs/stats answers unless a record has a truthy location that is not
\* a string.
StatsAnswers ==
  last.status = 200
    <=> ~\E i \in 1..Len(Records) : NotAString(Get(Records[i], "location"))

Least(S) == CHOOSE x \in S : \A y \in S : x <= y
Greatest(S) == CHOOSE x \in S : \A y \in S : x >= y

\* The time range the stats report is that of the timestamps T: null bounds
\* and no durationMs when T is empty.
TimeRangeIs(T) ==
  IF T = {}
    THEN /\ last.stats.earliest = JNull
         /\ last.stats.latest = JNull
         /\ last.stats.durationMs = Undefined
  ELSE /\ last.stats.earliest = JNum(Least(T))
       /\ last.stats.latest = JNum(Greatest(T))
       /\ last.stats.durationMs = JNum(Greatest(T) - Least(T))

C23_GroupingsSum ==
  last.op = "stats" =>
    /\ last.status = 200
    /\ SumCounts(last.stats.byHypothesis) = last.stats.totalEntries
    /\ Cardinality({e \in DOMAIN Records : "hypothesisId" \notin DOMAIN Records[e]}) > 0 =>
         /\ NONE \in DOMAIN last.stats.byHypothesis
         /\ last.stats.byHypothesis[NONE]
              >= Cardinality({e \in DOMAIN Records : "hypothesisId" \notin DOMAIN Records[e]})
    /\ SumCounts(last.stats.byLocation)
         = Cardinality({e \in DOMAIN Records : "location" \in DOMAIN Records[e]})
    /\ \A k \in DOMAIN last.stats.byLocation :
         last.stats.byLocation[k]
           = Cardinality({e \in DOMAIN Records : "location" \in DOMAIN Records[e]
                                         /\ Split(Records[e].location.s, ":")[1] = k})

\* The sort key of a timeline entry: its timestamp, 0 when it has none.
KeyOf(t) == IF t.timestamp.t = "num" THEN t.timestamp.n ELSE 0

\* The timestamps and elapsed values of a timeline, in its order.
Deltas(timeline) ==
  [i \in 1..Len(timeline) |-> <<timeline[i].timestamp, timeline[i].elapsed>>]

\* The permutations of 1..n.
Perms(n) == {p \in [1..n -> 1..n] : \A i, j \in 1..n : i # j => p[i] # p[j]}

\* When the records all carry a timestamp and no two the same, the timeline
\* shows the same timestamps and elapsed values for every order of the file.
SameInAnyOrder ==
  (/\ \A i \in 1..Len(Records) : "timestamp" \in DOMAIN Records[i]
   /\ \A i, j \in 1..Len(Records) :
        i # j => Records[i].timestamp # Records[j].timestamp) =>
    \A p \in Perms(Len(logFile)) :
      Deltas(Timeline(readLogEntries([i \in 1..Len(logFile) |-> logFile[p[i]]]),
                      last.query).entries)
        = Deltas(last.entries)

\* C24 as claimed: the timeline is in ascending timestamp order, a missing
\* timestamp sorting as 0; the first elapsed is 0 and each later one is the
\* timestamp minus that of the entry before it, or 0 when either is missing;
\* records with distinct timestamps give the same output in any file order.
C24_ElapsedUnlessMissing ==
  last.op = "timeline" =>
    LET tl == last.entries
    IN /\ last.status = 200
       /\ \A i, j \in 1..Len(tl) : i < j => KeyOf(tl[i]) <= KeyOf(tl[j])
       /\ \A i \in 1..Len(tl) :
            tl[i].elapsed
              = IF i > 1 /\ tl[i].timestamp # Undefined
                         /\ tl[i - 1].timestamp # Undefined
                  THEN tl[i].timestamp.n - tl[i - 1].timestamp.n
                ELSE 0
       /\ SameInAnyOrder

\* C24 amended: as claimed, but elapsed is 0 when either timestamp is
\* missing or 0.
C24_ElapsedUnlessMissingOrZero ==
  last.op = "timeline" =>
    LET tl == last.entries
    IN /\ last.status = 200
       /\ \A i, j \in 1..Len(tl) : i < j => KeyOf(tl[i]) <= KeyOf(tl[j])
       /\ \A i \in 1..Len(tl) :
            tl[i].elapsed
              = IF i > 1 /\ KeyOf(tl[i]) # 0 /\ KeyOf(tl[i - 1]) # 0
                  THEN tl[i].timestamp.n - tl[i - 1].timestamp.n
                ELSE 0
       /\ SameInAnyOrder

\* The timeline of a store ingested with timestamps 3, 1, 2: timestamps
\* 1, 2, 3 with elapsed 0, 1, 1.
C24_Witness ==
  /\ last.op = "timeline"
  /\ last.query = NoQuery
  /\ Len(Records) = 3
  /\ Get(Records[1], "timestamp") = JNum(3)
  /\ Get(Records[2], "timestamp") = JNum(1)
  /\ Get(Records[3], "timestamp") = JNum(2)
  /\ Deltas(last.entries)
       = <<<<JNum(1), 0>>, <<JNum(2), 1>>, <<JNum(3), 1>>>>

\* The record a timeline entry was made of.
RecordOf(t) ==
  Records[CHOOSE i \in 1..Len(Records) : Get(Records[i], "_seq") = t.seq]

\* C25 as claimed: hasData is true exactly when the record has a data field,
\* whatever it holds, and hasError exactly when it has an error field.
C25_FlagsByPresence ==
  last.op = "timeline" =>
    \A i \in 1..Len(last.entries) :
      LET t == last.entries[i]
      IN /\ t.hasData <=> "data" \in DOMAIN RecordOf(t)
         /\ t.hasError <=> "error" \in DOMAIN RecordOf(t)

\* C25 amended: hasData is true exactly when the data of the record is an
\* object with at least one key or a string that is not empty, and hasError
\* exactly when its error is truthy.
C25_FlagsByContent ==
  last.op = "timeline" =>
    \A i \in 1..Len(last.entries) :
      LET t == last.entries[i]
          data == Get(RecordOf(t), "data")
      IN /\ t.hasData <=> \/ data.t = "obj" /\ data.n > 0
                          \/ data.t = "str" /\ data.s # <<>>
         /\ t.hasError <=> Truthy(Get(RecordOf(t), "error"))

\* A timeline with the entry of a record whose data is {} and whose error is
\* a string, and the entry of a record whose data has a key.
C25_Witness ==
  /\ last.op = "timeline"
  /\ \E i \in 1..Len(last.entries) :
       /\ Get(RecordOf(last.entries[i]), "data") = JObj(0)
       /\ ~last.entries[i].hasData
       /\ last.entries[i].hasError
  /\ \E i \in 1..Len(last.entries) :
       /\ Get(RecordOf(last.entries[i]), "data") = JObj(1)
       /\ last.entries[i].hasData
       /\ ~last.entries[i].hasError

\* C26: no request being read holds more than MAX_BODY_SIZE bytes; a request
\* is rejected for its size only with more than MAX_BODY_SIZE bytes received,
\* then its body is not parsed, no record is stored and the counter is
\* unchanged; a request answered otherwise had a body of at
\* most MAX_BODY_SIZE bytes, which may be exactly MAX_BODY_SIZE.
C26_OversizeRejectedBeforeParsing ==
  [][\A r \in Reqs :
       /\ reqs'[r].size <= MAX_BODY_SIZE
       /\ (Answered(r) /\ last'.err = "size") =>
            /\ last'.n > MAX_BODY_SIZE
            /\ last'.body = NoBody
            /\ logFile' = logFile
            /\ logCounter' = logCounter
       /\ (Answered(r) /\ last'.err # "size") =>
            /\ reqs[r].size <= MAX_BODY_SIZE
            /\ last'.body # NoBody]_vars

\* A request was rejected with one byte more than MAX_BODY_SIZE while another
\* had received exactly MAX_BODY_SIZE bytes and the store held a record.
C26_Witness ==
  /\ last.err = "size"
  /\ last.n = MAX_BODY_SIZE + 1
  /\ \E r \in Reqs : reqs[r].phase = "reading" /\ reqs[r].size = MAX_BODY_SIZE
  /\ logFile # <<>>

\* C27: a batch request whose body is unparsable, or parses to a value
\* without an entries array, is answered 400, stores no record and leaves the
\* counter unchanged.
C27_BatchWithoutEntriesChangesNothing ==
  [][\A r \in Reqs :
       (Answered(r) /\ last'.op = "batch"
          /\ last'.body.k \in {"bad", "null", "scalar", "obj"}) =>
         /\ last'.status = 400
         /\ logFile' = logFile
         /\ logCounter' = logCounter]_vars

\* A batch request whose body is an object without entries was answered 400
\* while the store held a record.
C27_Witness ==
  /\ last.op = "batch"
  /\ last.body = ObjDoc(EmptyObject)
  /\ last.status = 400
  /\ last.err = "entries"
  /\ logCounter > 0
  /\ logFile # <<>>

\* C28: a DELETE /logs is answered 200 with the store empty and the counter
\* 0, or 500 with the store and the counter as they were; while its answer is
\* the last one sent, the store is empty and the counter 0 after a 200.
C28_ClearIsAtomic ==
  [][/\ (last' # last /\ last'.op = "delete") =>
          \/ last'.status = 200 /\ logFile' = <<>> /\ logCounter' = 0
          \/ last'.status = 500 /\ logFile' = logFile /\ logCounter' = logCounter
     /\ (last'.op = "delete" /\ last'.status = 200) =>
          logFile' = <<>> /\ logCounter' = 0]_vars

\* A DELETE /logs was answered 500 and left the two records and the counter.
C28_Witness ==
  /\ last.op = "delete"
  /\ last.status = 500
  /\ logCounter = 2
  /\ Len(logFile) = 2

\* C29: GET /health, /logs, /logs/stats, /logs/timeline, OPTIONS and a
\* request no route matches leave the store and the counter unchanged.
C29_ReadsChangeNothing ==
  [][(last' # last /\ last'.op \in ReadOps \cup {"options", "notfound"}) =>
       /\ logFile' = logFile
       /\ logCounter' = logCounter]_vars

\* A request no route matches was answered 404 while the store held records.
C29_Witness ==
  /\ last.op = "notfound"
  /\ last.status = 404
  /\ logCounter = 2
  /\ Len(logFile) = 2

\* C30: the counter is the largest _seq among the stored records, 0 when the
\* store is empty.
C30_CounterIsLargestSeq ==
  logCounter
    = IF logFile = <<>> THEN 0
      ELSE Greatest({SeqOf(logFile, i).n : i \in 1..Len(logFile)})

\* C31: when the process has started and has answered no request yet, the
\* store is empty and the counter is 0; a read-side request answered first
\* after the start returns no record, and the first record stored after the
\* start has _seq 1.
C31_StartsEmpty ==
  [][/\ last'.op = "start" => (logFile' = <<>> /\ logCounter' = 0)
     /\ (last.op = "start" /\ last'.op \in {"logs", "timeline"}) => last'.n = 0
     /\ \A r \in Reqs :
          (last.op = "start" /\ Answered(r) /\ last'.status = 200
             /\ Len(logFile') > Len(logFile)) =>
            SeqOf(logFile', Len(logFile) + 1).n = 1]_vars

\* C32: the step that answers a batch request 200 appends one record for each
\* of its entries, in one piece after the records the store held, with _seq
\* values that each exceed the one before by 1; no other request, clear or
\* read acts within that step.
C32_BatchIsContiguous ==
  [][\A r \in Reqs :
       (Answered(r) /\ last'.op = "batch" /\ last'.status = 200) =>
         LET k == Len(last'.body.entries)
         IN /\ Appends(k)
            /\ \A q \in Reqs \ {r} : reqs'[q] = reqs[q]
            /\ \A i \in 1..(k - 1) :
                 SeqOf(logFile', Len(logFile) + i + 1).n
                   = SeqOf(logFile', Len(logFile) + i).n + 1]_vars

\* C33: _seq follows the order in which bodies end, whatever the order in
\* which the requests started: the record of a single ingestion request
\* answered 200, another request being read or not, is stored after every
\* record of the requests whose bodies ended before, with a _seq larger than
\* each of theirs.
C33_SeqFollowsBodyEnd ==
  [][\A r \in Reqs :
       (Answered(r) /\ last'.op = "single" /\ last'.status = 200) =>
         /\ Appends(1)
         /\ \A i \in 1..Len(logFile) :
              SeqOf(logFile, i).n < SeqOf(logFile', Len(logFile')).n]_vars

\* C34: the step that answers an ingestion request 400 leaves the store and
\* the counter as they were.
C34_RejectedChangesNothing ==
  [][\A r \in Reqs :
       (Answered(r) /\ last'.status = 400) =>
         /\ logFile' = logFile
         /\ logCounter' = logCounter]_vars

\* C35: the step in which the body of an ingestion request ends, or exceeds
\* MAX_BODY_SIZE, sends the client of that request one answer, of status 200
\* or 400; an answer to an ingestion request is sent in no other step, so
\* none is answered twice.
C35_AnsweredExactlyOnce ==
  [][/\ \A r \in Reqs :
          Answered(r) =>
            /\ last'.op = reqs[r].kind
            /\ last'.status \in {200, 400}
     /\ (last' # last /\ last'.op \in {"single", "batch"}) =>
          Cardinality({r \in Reqs : Answered(r)}) = 1]_vars

\* The indices of the records a hypothesis parameter selects: those whose
\* hypothesisId is the parameter, all of them when the request carries none
\* (`?hypothesis=` carries none).
Selected(filter) ==
  {i \in 1..Len(Records) :
     (filter # Undefined /\ filter # JStr(<<>>)) =>
       Get(Records[i], "hypothesisId") = filter}

PositionOf(t) == CHOOSE i \in 1..Len(Records) : Get(Records[i], "_seq") = t.seq

\* C37: two timeline entries of equal sort key (equal timestamps, or no
\* timestamp or 0 in both) appear in the order of their records in the file.
C37_TiesInFileOrder ==
  last.op = "timeline" =>
    \A i, j \in 1..Len(last.entries) :
      (i < j /\ KeyOf(last.entries[i]) = KeyOf(last.entries[j])) =>
        PositionOf(last.entries[i]) < PositionOf(last.entries[j])

\* The timeline of a store holding a record of timestamp 3 and then two of
\* timestamp 1: the two come first, in the order of the file.
C37_Witness ==
  /\ last.op = "timeline"
  /\ last.query = NoQuery
  /\ Len(Records) = 3
  /\ Get(Records[1], "timestamp") = JNum(3)
  /\ Get(Records[2], "timestamp") = JNum(1)
  /\ Get(Records[3], "timestamp") = JNum(1)
  /\ last.entries[1].seq = JNum(2)
  /\ last.entries[2].seq = JNum(3)
  /\ last.entries[3].seq = JNum(1)

====
